---- MODULE Spec2Model ----
(***************************************************************************)
(* Timed-histogram scopes of src/logging/counters-scopes.h.                *)
(*                                                                         *)
(* The program state is the set of live scope objects (their timer_,       *)
(* histogram_, isolate_, mode_ and previous_scope_ fields), each           *)
(* histogram's enabled flag, debug running state, recorded samples and     *)
(* stack top (current_), the long-task counter v8_execute_us, the event    *)
(* log and the monotonic clock.  Scopes are C++ objects with automatic     *)
(* storage: cstack is the order in which the live ones were constructed,   *)
(* and only the innermost one can be destroyed.                            *)
(*                                                                         *)
(* Every method of the header is an operator from a machine record M to    *)
(* the machine record after the call; an action runs one constructor,      *)
(* destructor or setter as a whole.                                        *)
(***************************************************************************)
EXTENDS Integers, Sequences, FiniteSets

VARIABLES scopes, current_, enabled, running, samples, v8_execute_us,
          events, now, debug, fault, cstack, created, ghost, last,
          lazyAssigned, topTime

vars == <<scopes, current_, enabled, running, samples, v8_execute_us,
          events, now, debug, fault, cstack, created, ghost, last,
          lazyAssigned, topTime>>

\* ---------------------------------------------------------------- bounds
\* Number of scope objects constructed in one run.
MaxScopes == 3
\* Of these, the first MaxPlain may be Plain, Optional or Lazy Scopes.
MaxPlain == 2
\* Last instant of the monotonic clock.
MaxTime == 3

\* ------------------------------------------------------------- constants
NULL == 0
NoHistogram == "nullptr"
NoIsolate == "nullptr"
TheIsolate == "isolate"
Execute == "execute"
Histograms == {"execute", "compile"}
ScopeIds == 1..MaxScopes
TAKE_TIME == "TAKE_TIME"
DONT_TAKE_TIME == "DONT_TAKE_TIME"
kSkip == "kSkip"
kRecord == "kRecord"
NoMode == "none"
NoFault == "none"
\* What a build can do at a null dereference: trap, or run on.
UBOutcomes == {"crash", "continue"}

\* ----------------------------------------------------------------- timer
\* base::ElapsedTimer
NoTimer == [started |-> FALSE, paused |-> FALSE, start_ticks |-> 0,
            paused_elapsed |-> 0]

ElapsedTimer_Start(t, ticks) ==
  [t EXCEPT !.started = TRUE, !.paused = FALSE, !.start_ticks = ticks]

ElapsedTimer_Elapsed(t, ticks) ==
  IF t.paused THEN t.paused_elapsed ELSE ticks - t.start_ticks

ElapsedTimer_Pause(t, ticks) ==
  [t EXCEPT !.paused = TRUE, !.paused_elapsed = ElapsedTimer_Elapsed(t, ticks)]

ElapsedTimer_Resume(t, ticks) ==
  [t EXCEPT !.paused = FALSE, !.start_ticks = ticks - t.paused_elapsed]

ElapsedTimer_Stop(t) ==
  [t EXCEPT !.started = FALSE, !.paused = FALSE, !.start_ticks = 0,
            !.paused_elapsed = 0]

\* The timer accumulates: started and not paused.
Advancing(t) == t.started /\ ~t.paused

\* --------------------------------------------------------------- machine
NoScope == [kind |-> "none", histogram_ |-> NoHistogram,
            isolate_ |-> NoIsolate, mode_ |-> NoMode,
            previous_scope_ |-> NULL, timer_ |-> NoTimer]

Machine == [scopes |-> scopes, current_ |-> current_, enabled |-> enabled,
            running |-> running, samples |-> samples,
            v8_execute_us |-> v8_execute_us, events |-> events, now |-> now,
            debug |-> debug, fault |-> fault, steps |-> <<>>]

Ok(M) == M.fault = NoFault

Step(M, what) == [M EXCEPT !.steps = Append(@, what)]

Fail(M, what) == [M EXCEPT !.fault = what]

\* A read through a null pointer.
NullDeref(M, ub) ==
  IF ub = "crash" THEN Fail(M, "SEGV") ELSE Step(M, "null dereference")

\* TimedHistogram::Enabled
Enabled(M, h) == M.enabled[h]

\* TimedHistogram::ToggleRunningState (DEBUG only)
ToggleRunningState(M, h, expect_to_run) ==
  IF ~Ok(M) THEN M
  ELSE IF M.running[h] = expect_to_run THEN Fail(M, "DCHECK")
  ELSE Step([M EXCEPT !.running[h] = expect_to_run], "ToggleRunningState")

\* DCHECK(histogram_->ToggleRunningState(x)): compiled out of release builds.
DCHECK_ToggleRunningState(M, h, expect_to_run) ==
  IF M.debug THEN ToggleRunningState(M, h, expect_to_run) ELSE M

\* DCHECK(histogram_->Enabled())
DCHECK_Enabled(M, h) ==
  IF ~Ok(M) THEN M
  ELSE IF M.debug /\ ~Enabled(M, h) THEN Fail(M, "DCHECK") ELSE M

\* TimedHistogram::AddTimedSample
AddTimedSample(M, h, sample) ==
  IF ~Ok(M) THEN M
  ELSE Step([M EXCEPT !.samples[h] = Append(@, sample)], "AddTimedSample")

\* Logger::CallEventLogger
CallEventLogger(M, isolate, name, status, ub) ==
  IF ~Ok(M) THEN M
  ELSE IF isolate = NoIsolate /\ ub = "crash" THEN Fail(M, "SEGV")
  ELSE Step([M EXCEPT !.events = Append(@, [name |-> name, status |-> status,
                                            isolate |-> isolate])], status)

\* NestedTimedHistogram::Enter: the new top is next; the old top is returned
\* (read by the caller as M.current_[h] before the call).
Enter(M, h, next) ==
  IF ~Ok(M) THEN M ELSE Step([M EXCEPT !.current_[h] = next], "Enter")

\* NestedTimedHistogram::Leave
Leave(M, h, previous) ==
  IF ~Ok(M) THEN M ELSE Step([M EXCEPT !.current_[h] = previous], "Leave")

\* timer_.Start(now) and the like, on scope s
TimerStart(M, s, ticks) ==
  IF ~Ok(M) THEN M
  ELSE Step([M EXCEPT !.scopes[s].timer_ = ElapsedTimer_Start(@, ticks)],
            "timer.Start")

TimerPause(M, s, ticks) ==
  IF ~Ok(M) THEN M
  ELSE Step([M EXCEPT !.scopes[s].timer_ = ElapsedTimer_Pause(@, ticks)],
            "timer.Pause")

TimerResume(M, s, ticks) ==
  IF ~Ok(M) THEN M
  ELSE Step([M EXCEPT !.scopes[s].timer_ = ElapsedTimer_Resume(@, ticks)],
            "timer.Resume")

TimerStop(M, s) ==
  IF ~Ok(M) THEN M
  ELSE Step([M EXCEPT !.scopes[s].timer_ = ElapsedTimer_Stop(@)],
            "timer.Stop")

\* ------------------------------------------------ BaseTimedHistogramScope
\* BaseTimedHistogramScope(histogram): the object before its subclass's
\* constructor body runs.
NewScope(M, s, kind, histogram, isolate, mode) ==
  [M EXCEPT !.scopes[s] = [kind |-> kind, histogram_ |-> histogram,
                           isolate_ |-> isolate, mode_ |-> mode,
                           previous_scope_ |-> NULL, timer_ |-> NoTimer]]

\* The storage of a destroyed object is dead.
DeleteScope(M, s) == [M EXCEPT !.scopes[s] = NoScope]

BaseStartInternal(M, s) ==
  LET h == M.scopes[s].histogram_
  IN TimerStart(DCHECK_ToggleRunningState(M, h, TRUE), s, M.now)

\* StopInternal without the toggle of the running state.
BaseStopInternal_NoToggle(M, s) ==
  LET h == M.scopes[s].histogram_
      M1 == AddTimedSample(M, h,
                           ElapsedTimer_Elapsed(M.scopes[s].timer_, M.now))
  IN TimerStop(M1, s)

BaseStopInternal(M, s) ==
  LET h == M.scopes[s].histogram_
      M1 == DCHECK_ToggleRunningState(M, h, FALSE)
      M2 == AddTimedSample(M1, h,
                           ElapsedTimer_Elapsed(M1.scopes[s].timer_, M1.now))
  IN TimerStop(M2, s)

BaseStart(M, s) ==
  IF Enabled(M, M.scopes[s].histogram_) THEN BaseStartInternal(M, s) ELSE M

BaseStop(M, s) ==
  IF Enabled(M, M.scopes[s].histogram_) THEN BaseStopInternal(M, s) ELSE M

LogStart(M, s, isolate, ub) ==
  CallEventLogger(M, isolate, M.scopes[s].histogram_, "kStart", ub)

LogEnd(M, s, isolate, ub) ==
  CallEventLogger(M, isolate, M.scopes[s].histogram_, "kEnd", ub)

\* ---------------------------------------------------- TimedHistogramScope
\* The constructor with the log event first.
TimedHistogramScope_ctor_LogFirst(M, s, ub) ==
  LET M1 == IF M.scopes[s].isolate_ # NoIsolate
            THEN LogStart(M, s, M.scopes[s].isolate_, ub) ELSE M
  IN BaseStart(M1, s)

TimedHistogramScope_ctor(M, s, ub) ==
  LET M1 == BaseStart(M, s)
  IN IF M1.scopes[s].isolate_ # NoIsolate
     THEN LogStart(M1, s, M1.scopes[s].isolate_, ub) ELSE M1

TimedHistogramScope_dtor(M, s, ub) ==
  LET M1 == BaseStop(M, s)
  IN IF M1.scopes[s].isolate_ # NoIsolate
     THEN LogEnd(M1, s, M1.scopes[s].isolate_, ub) ELSE M1

\* -------------------------------------------- OptionalTimedHistogramScope
OptionalTimedHistogramScope_ctor(M, s, ub) ==
  IF M.scopes[s].mode_ # TAKE_TIME THEN M
  ELSE LogStart(BaseStart(M, s), s, M.scopes[s].isolate_, ub)

\* The destructor that logs the end event without stopping.
OptionalTimedHistogramScope_dtor_NoStop(M, s, ub) ==
  IF M.scopes[s].mode_ # TAKE_TIME THEN M
  ELSE LogEnd(M, s, M.scopes[s].isolate_, ub)

OptionalTimedHistogramScope_dtor(M, s, ub) ==
  IF M.scopes[s].mode_ # TAKE_TIME THEN M
  ELSE LogEnd(BaseStop(M, s), s, M.scopes[s].isolate_, ub)

\* ------------------------------------------------ LazyTimedHistogramScope
LazyTimedHistogramScope_ctor(M, s) == TimerStart(M, s, M.now)

\* Stop() reads histogram_->Enabled(): through a null pointer when no
\* histogram was set.
LazyTimedHistogramScope_dtor(M, s, ub) ==
  IF M.scopes[s].histogram_ = NoHistogram THEN NullDeref(M, ub)
  ELSE BaseStop(M, s)

\* set_histogram that starts the timer anew.
set_histogram_Restart(M, s, histogram) ==
  LET M1 == IF M.debug /\ Enabled(M, histogram)
            THEN ToggleRunningState(M, histogram, TRUE) ELSE M
  IN IF ~Ok(M1) THEN M1
     ELSE TimerStart(Step([M1 EXCEPT !.scopes[s].histogram_ = histogram],
                          "set_histogram"), s, M1.now)

set_histogram(M, s, histogram) ==
  LET M1 == IF M.debug /\ Enabled(M, histogram)
            THEN ToggleRunningState(M, histogram, TRUE) ELSE M
  IN IF ~Ok(M1) THEN M1
     ELSE Step([M1 EXCEPT !.scopes[s].histogram_ = histogram],
               "set_histogram")

\* ---------------------------------------------- NestedTimedHistogramScope
\* NestedTimedHistogramScope::isolate
isolate(M, s) == TheIsolate

\* NestedTimedHistogramScope::Pause
NestedPause(M, s, ticks) ==
  TimerPause(DCHECK_Enabled(M, M.scopes[s].histogram_), s, ticks)

\* Resume that starts the timer anew and loses what it had accumulated.
NestedResume_Restart(M, s, ticks) ==
  TimerStart(DCHECK_Enabled(M, M.scopes[s].histogram_), s, ticks)

\* NestedTimedHistogramScope::Resume
NestedResume(M, s, ticks) ==
  TimerResume(DCHECK_Enabled(M, M.scopes[s].histogram_), s, ticks)

\* StartInteral that leaves the enclosing scope's timer running.
StartInteral_NoPause(M, s) ==
  LET h == M.scopes[s].histogram_
      previous == M.current_[h]
      M1 == [Enter(M, h, s) EXCEPT !.scopes[s].previous_scope_ = previous]
  IN TimerStart(M1, s, M.now)

StartInteral(M, s) ==
  LET h == M.scopes[s].histogram_
      previous == M.current_[h]
      M1 == [Enter(M, h, s) EXCEPT !.scopes[s].previous_scope_ = previous]
      ticks == M.now
      M2 == IF previous # NULL THEN NestedPause(M1, previous, ticks) ELSE M1
  IN TimerStart(M2, s, ticks)

\* Start that does not test Enabled.
NestedStart_IgnoreEnabled(M, s, ub) ==
  LogStart(StartInteral(M, s), s, isolate(M, s), ub)

NestedStart(M, s, ub) ==
  LET M1 == IF Enabled(M, M.scopes[s].histogram_) THEN StartInteral(M, s)
            ELSE M
  IN LogStart(M1, s, isolate(M1, s), ub)

\* RecordLongTaskTime that does not compare the histogram with execute().
RecordLongTaskTime_AnyHistogram(M, s, elapsed) ==
  IF ~Ok(M) THEN M
  ELSE Step([M EXCEPT !.v8_execute_us = @ + elapsed], "RecordLongTaskTime")

\* NestedTimedHistogramScope::RecordLongTaskTime
RecordLongTaskTime(M, s, elapsed) ==
  IF ~Ok(M) THEN M
  ELSE IF M.scopes[s].histogram_ = Execute
  THEN Step([M EXCEPT !.v8_execute_us = @ + elapsed], "RecordLongTaskTime")
  ELSE M

\* StopInternal that does not resume the enclosing scope.
NestedStopInternal_NoResume(M, s) ==
  LET h == M.scopes[s].histogram_
      M1 == Leave(M, h, M.scopes[s].previous_scope_)
      elapsed == ElapsedTimer_Elapsed(M1.scopes[s].timer_, M.now)
      M2 == AddTimedSample(M1, h, elapsed)
      M3 == IF M2.scopes[s].mode_ = kRecord
            THEN RecordLongTaskTime(M2, s, elapsed) ELSE M2
  IN IF M3.debug THEN TimerStop(M3, s) ELSE M3

\* StopInternal that leaves the stack empty instead of restoring the
\* previous scope as its top.
NestedStopInternal_LeaveNull(M, s) ==
  LET h == M.scopes[s].histogram_
      previous == M.scopes[s].previous_scope_
      M1 == Leave(M, h, NULL)
      ticks == M.now
      elapsed == ElapsedTimer_Elapsed(M1.scopes[s].timer_, ticks)
      M2 == AddTimedSample(M1, h, elapsed)
      M3 == IF M2.scopes[s].mode_ = kRecord
            THEN RecordLongTaskTime(M2, s, elapsed) ELSE M2
      M4 == IF M3.debug THEN TimerStop(M3, s) ELSE M3
  IN IF previous # NULL THEN NestedResume(M4, previous, ticks) ELSE M4

\* NestedTimedHistogramScope::StopInternal
NestedStopInternal(M, s) ==
  LET h == M.scopes[s].histogram_
      previous == M.scopes[s].previous_scope_
      M1 == Leave(M, h, previous)
      ticks == M.now
      elapsed == ElapsedTimer_Elapsed(M1.scopes[s].timer_, ticks)
      M2 == AddTimedSample(M1, h, elapsed)
      M3 == IF M2.scopes[s].mode_ = kRecord
            THEN RecordLongTaskTime(M2, s, elapsed) ELSE M2
      M4 == IF M3.debug THEN TimerStop(M3, s) ELSE M3
  IN IF previous # NULL THEN NestedResume(M4, previous, ticks) ELSE M4

\* Stop that logs the end event before it stops.
NestedStop_LogFirst(M, s, ub) ==
  LET M1 == LogEnd(M, s, isolate(M, s), ub)
  IN IF Enabled(M1, M1.scopes[s].histogram_) THEN NestedStopInternal(M1, s)
     ELSE M1

NestedStop(M, s, ub) ==
  LET M1 == IF Enabled(M, M.scopes[s].histogram_)
            THEN NestedStopInternal(M, s) ELSE M
  IN LogEnd(M1, s, isolate(M1, s), ub)

\* ----------------------------------------- PauseNestedTimedHistogramScope
\* Pause that installs the placeholder and leaves the captured scope's timer
\* running.
PausePause_NoPause(M, s) ==
  LET h == M.scopes[s].histogram_
      previous == M.current_[h]
  IN [Enter(M, h, NULL) EXCEPT !.scopes[s].previous_scope_ = previous]

\* Pause that leaves the captured scope on top instead of the placeholder.
PausePause_NoPlaceholder(M, s) ==
  LET h == M.scopes[s].histogram_
      previous == M.current_[h]
      M1 == [Enter(M, h, previous) EXCEPT
               !.scopes[s].previous_scope_ = previous]
  IN IF previous # NULL THEN NestedPause(M1, previous, M1.now) ELSE M1

\* PauseNestedTimedHistogramScope::Pause
PausePause(M, s) ==
  LET h == M.scopes[s].histogram_
      previous == M.current_[h]
      M1 == [Enter(M, h, NULL) EXCEPT !.scopes[s].previous_scope_ = previous]
  IN IF previous # NULL THEN NestedPause(M1, previous, M1.now) ELSE M1

\* Resume that resumes the captured scope's timer and leaves the top as it is.
PauseResume_NoLeave(M, s, ub) ==
  LET previous == M.scopes[s].previous_scope_
  IN IF previous = NULL THEN NullDeref(M, ub)
     ELSE NestedResume(M, previous, M.now)

\* PauseNestedTimedHistogramScope::Resume
PauseResume(M, s, ub) ==
  LET h == M.scopes[s].histogram_
      previous == M.scopes[s].previous_scope_
      M1 == Leave(M, h, previous)
  IN IF previous = NULL THEN NullDeref(M1, ub)
     ELSE NestedResume(M1, previous, M1.now)

PauseNestedTimedHistogramScope_ctor(M, s) ==
  IF Enabled(M, M.scopes[s].histogram_) THEN PausePause(M, s) ELSE M

\* The destructor without the test of previous_scope_.
PauseDtor_NoNullCheck(M, s, ub) ==
  IF Enabled(M, M.scopes[s].histogram_) THEN PauseResume(M, s, ub) ELSE M

PauseNestedTimedHistogramScope_dtor(M, s, ub) ==
  IF M.scopes[s].previous_scope_ # NULL /\ Enabled(M, M.scopes[s].histogram_)
  THEN PauseResume(M, s, ub) ELSE M

\* ------------------------------------------------------ history variables
\* ghost[s]: when scope s was constructed, whether it went onto its
\* histogram's stack, and the wall time covered so far by the Nested Scopes
\* (childWall) and Pause Scopes (pauseWall) constructed directly inside it
\* on the same histogram, when set_histogram last ran on it, and whether its
\* histogram's enabled flag has changed since it started (since set_histogram
\* for a Lazy Scope), and the stack tops and the set of scopes with an
\* advancing timer just before its construction.  last: the last constructor, destructor or setter that
\* ran, the calls it made in order (steps), the object as it was when a
\* destructor began (scope, g), and the samples it added to each histogram.
\* lazyAssigned: the histograms that set_histogram has given to a Lazy Scope.
\* topTime[h]: the time that has passed while h's stack top was not null.
NoGhost == [enter |-> 0, entered |-> FALSE, childWall |-> 0, pauseWall |-> 0,
            assigned |-> 0, flagChanged |-> FALSE,
            topBefore |-> [h \in Histograms |-> NULL], advancingBefore |-> {}]

NoLast == [op |-> "none", cls |-> "none", id |-> NULL, steps |-> <<>>,
           scope |-> NoScope, g |-> NoGhost, leave |-> 0,
           added |-> [h \in Histograms |-> <<>>]]

OnStack(s) == scopes[s].kind \in {"Nested", "Pause"} /\ ghost[s].entered

\* Positions of cstack below position i holding a scope on h's stack.
Enclosing(h, i) ==
  {j \in 1..(i - 1) : OnStack(cstack[j]) /\ scopes[cstack[j]].histogram_ = h}

Max(S) == CHOOSE x \in S : \A y \in S : y <= x

\* The scope directly around the innermost live scope, on the same
\* histogram's stack; NULL when there is none.
Parent ==
  LET i == Len(cstack)
      E == Enclosing(scopes[cstack[i]].histogram_, i)
  IN IF E = {} THEN NULL ELSE cstack[Max(E)]

Added(M) ==
  [h \in Histograms |->
     SubSeq(M.samples[h], Len(samples[h]) + 1, Len(M.samples[h]))]

\* The machine record becomes the next state.
Commit(M) ==
  /\ scopes' = M.scopes
  /\ current_' = M.current_
  /\ running' = M.running
  /\ samples' = M.samples
  /\ v8_execute_us' = M.v8_execute_us
  /\ events' = M.events
  /\ fault' = M.fault
  /\ UNCHANGED <<enabled, debug, now, topTime>>

\* The scopes whose timer is advancing.
AdvancingScopes == {x \in ScopeIds : Advancing(scopes[x].timer_)}

\* A constructor ran on the new object s.
Constructed(M, s, cls, entered) ==
  /\ Commit(M)
  /\ cstack' = Append(cstack, s)
  /\ created' = s
  /\ UNCHANGED lazyAssigned
  /\ ghost' = [ghost EXCEPT ![s] = [enter |-> now, entered |-> entered,
                                    childWall |-> 0, pauseWall |-> 0,
                                    assigned |-> 0, flagChanged |-> FALSE,
                                    topBefore |-> current_,
                                    advancingBefore |-> AdvancingScopes]]
  /\ last' = [op |-> "ctor", cls |-> cls, id |-> s, steps |-> M.steps,
              scope |-> M.scopes[s], g |-> ghost'[s], leave |-> now,
              added |-> Added(M)]

\* The machine once the destructor of s has returned.
AfterDtor(M, s) == IF Ok(M) THEN DeleteScope(M, s) ELSE M

\* The destructor of the innermost object s ran; its storage is gone.
Destroyed(M, s, cls) ==
  LET p == Parent
      wall == now - ghost[s].enter
      g1 == [ghost EXCEPT ![s] = NoGhost]
  IN /\ Commit(AfterDtor(M, s))
     /\ cstack' = SubSeq(cstack, 1, Len(cstack) - 1)
     /\ UNCHANGED <<created, lazyAssigned>>
     /\ ghost' = IF p = NULL \/ ~OnStack(s) \/ scopes[p].kind # "Nested"
                 THEN g1
                 ELSE IF scopes[s].kind = "Nested"
                 THEN [g1 EXCEPT ![p].childWall = @ + wall]
                 ELSE [g1 EXCEPT ![p].pauseWall = @ + wall]
     /\ last' = [op |-> "dtor", cls |-> cls, id |-> s, steps |-> M.steps,
                 scope |-> scopes[s], g |-> ghost[s], leave |-> now,
                 added |-> Added(M)]

\* ---------------------------------------------------------------- actions
CanConstruct == fault = NoFault /\ created < MaxScopes

CanConstructPlain == CanConstruct /\ created < MaxPlain

\* In a run that mixes all five classes, every object is among the first
\* MaxPlain.
CanConstructMixed == created < MaxPlain

\* The innermost live object is of class kind.
Innermost(kind) ==
  /\ fault = NoFault
  /\ cstack # <<>>
  /\ scopes[cstack[Len(cstack)]].kind = kind

Top == cstack[Len(cstack)]

Init ==
  /\ scopes = [s \in ScopeIds |-> NoScope]
  /\ current_ = [h \in Histograms |-> NULL]
  /\ enabled \in [Histograms -> BOOLEAN]
  /\ running = [h \in Histograms |-> FALSE]
  /\ samples = [h \in Histograms |-> <<>>]
  /\ v8_execute_us = 0
  /\ events = <<>>
  /\ now = 0
  /\ debug \in BOOLEAN
  /\ fault = NoFault
  /\ cstack = <<>>
  /\ created = 0
  /\ ghost = [s \in ScopeIds |-> NoGhost]
  /\ last = NoLast
  /\ lazyAssigned = {}
  /\ topTime = [h \in Histograms |-> 0]

\* base::TimeTicks::HighResolutionNow advances.
Tick ==
  /\ fault = NoFault
  /\ now < MaxTime
  /\ now' = now + 1
  /\ topTime' = [h \in Histograms |->
                  IF current_[h] # NULL THEN topTime[h] + 1 ELSE topTime[h]]
  /\ UNCHANGED <<scopes, current_, enabled, running, samples, v8_execute_us,
                 events, debug, fault, cstack, created, ghost, last,
                 lazyAssigned>>

PlainCtor(h, iso) ==
  /\ CanConstructPlain
  /\ LET s == created + 1
         M == NewScope(Machine, s, "Plain", h, iso, NoMode)
     IN Constructed(TimedHistogramScope_ctor(M, s, "crash"), s, "Plain", FALSE)

PlainDtor ==
  /\ Innermost("Plain")
  /\ Destroyed(TimedHistogramScope_dtor(Machine, Top, "crash"), Top, "Plain")

OptionalCtor(h, iso, mode, ub) ==
  /\ CanConstructPlain
  /\ LET s == created + 1
         M == NewScope(Machine, s, "Optional", h, iso, mode)
     IN Constructed(OptionalTimedHistogramScope_ctor(M, s, ub), s,
                    "Optional", FALSE)

OptionalDtor(ub) ==
  /\ Innermost("Optional")
  /\ Destroyed(OptionalTimedHistogramScope_dtor(Machine, Top, ub), Top,
               "Optional")

LazyCtor ==
  /\ CanConstructPlain
  /\ LET s == created + 1
         M == NewScope(Machine, s, "Lazy", NoHistogram, NoIsolate, NoMode)
     IN Constructed(LazyTimedHistogramScope_ctor(M, s), s, "Lazy", FALSE)

\* set_histogram on a live Lazy Scope s, innermost or not.
LazySetHistogram(s, h) ==
  /\ fault = NoFault
  /\ scopes[s].kind = "Lazy"
  /\ LET M == set_histogram(Machine, s, h)
     IN /\ Commit(M)
        /\ UNCHANGED <<cstack, created>>
        /\ lazyAssigned' = IF Ok(M) THEN lazyAssigned \cup {h}
                           ELSE lazyAssigned
        /\ ghost' = [ghost EXCEPT ![s].assigned = now,
                                  ![s].flagChanged = FALSE]
        /\ last' = [op |-> "set_histogram", cls |-> "Lazy", id |-> s,
                    steps |-> M.steps, scope |-> M.scopes[s],
                    g |-> ghost'[s], leave |-> now, added |-> Added(M)]

LazyDtor(ub) ==
  /\ Innermost("Lazy")
  /\ Destroyed(LazyTimedHistogramScope_dtor(Machine, Top, ub), Top, "Lazy")

NestedCtor(h, mode) ==
  /\ CanConstruct
  /\ LET s == created + 1
         M == NewScope(Machine, s, "Nested", h, NoIsolate, mode)
     IN Constructed(NestedStart(M, s, "crash"), s, "Nested", Enabled(M, h))

\* LongTaskNestedTimedHistogramScope(histogram)
LongTaskNestedCtor(h) ==
  /\ CanConstruct
  /\ LET s == created + 1
         M == NewScope(Machine, s, "Nested", h, NoIsolate, kRecord)
     IN Constructed(NestedStart(M, s, "crash"), s, "Nested", Enabled(M, h))

NestedDtor ==
  /\ Innermost("Nested")
  /\ Destroyed(NestedStop(Machine, Top, "crash"), Top, "Nested")

PauseCtor(h) ==
  /\ CanConstruct
  /\ LET s == created + 1
         M == NewScope(Machine, s, "Pause", h, NoIsolate, NoMode)
     IN Constructed(PauseNestedTimedHistogramScope_ctor(M, s), s, "Pause",
                    Enabled(M, h))

PauseDtor(ub) ==
  /\ Innermost("Pause")
  /\ Destroyed(PauseNestedTimedHistogramScope_dtor(Machine, Top, ub), Top,
               "Pause")

\* The embedder turns histogram h on or off while a single scope is alive,
\* which is on h and has seen no change of the flag since it started.
SetEnabled(h) ==
  /\ fault = NoFault
  /\ Len(cstack) = 1
  /\ scopes[Top].histogram_ = h
  /\ ~ghost[Top].flagChanged
  /\ enabled' = [enabled EXCEPT ![h] = ~@]
  /\ ghost' = [s \in ScopeIds |->
                IF scopes[s].histogram_ = h
                THEN [ghost[s] EXCEPT !.flagChanged = TRUE] ELSE ghost[s]]
  /\ UNCHANGED <<scopes, current_, running, samples, v8_execute_us, events,
                 now, debug, fault, cstack, created, last, lazyAssigned,
                 topTime>>

Isolates == {TheIsolate, NoIsolate}

\* All five classes together.
Next ==
  \/ Tick
  \/ \E h \in Histograms, iso \in Isolates : PlainCtor(h, iso)
  \/ PlainDtor
  \/ \E h \in Histograms, iso \in Isolates,
        mode \in {TAKE_TIME, DONT_TAKE_TIME}, ub \in UBOutcomes :
       OptionalCtor(h, iso, mode, ub)
  \/ \E ub \in UBOutcomes : OptionalDtor(ub)
  \/ LazyCtor
  \/ \E s \in ScopeIds, h \in Histograms : LazySetHistogram(s, h)
  \/ \E ub \in UBOutcomes : LazyDtor(ub)
  \/ \E h \in Histograms, mode \in {kSkip, kRecord} :
       CanConstructMixed /\ NestedCtor(h, mode)
  \/ \E h \in Histograms : CanConstructMixed /\ LongTaskNestedCtor(h)
  \/ NestedDtor
  \/ \E h \in Histograms : CanConstructMixed /\ PauseCtor(h)
  \/ \E ub \in UBOutcomes : PauseDtor(ub)

Spec == Init /\ [][Next]_vars

\* Nested Scopes and Pause Scopes only.
NextNested ==
  \/ Tick
  \/ \E h \in Histograms, mode \in {kSkip, kRecord} : NestedCtor(h, mode)
  \/ \E h \in Histograms : LongTaskNestedCtor(h)
  \/ NestedDtor
  \/ \E h \in Histograms : PauseCtor(h)
  \/ \E ub \in UBOutcomes : PauseDtor(ub)

SpecNested == Init /\ [][NextNested]_vars

\* Plain, Optional and Lazy Scopes only.
NextPlain ==
  \/ Tick
  \/ \E h \in Histograms, iso \in Isolates : PlainCtor(h, iso)
  \/ PlainDtor
  \/ \E h \in Histograms, iso \in Isolates,
        mode \in {TAKE_TIME, DONT_TAKE_TIME}, ub \in UBOutcomes :
       OptionalCtor(h, iso, mode, ub)
  \/ \E ub \in UBOutcomes : OptionalDtor(ub)
  \/ LazyCtor
  \/ \E s \in ScopeIds, h \in Histograms : LazySetHistogram(s, h)
  \/ \E ub \in UBOutcomes : LazyDtor(ub)

SpecPlain == Init /\ [][NextPlain]_vars

\* All five classes, with the enabled flags changing under live scopes.
NextFlag ==
  \/ Next
  \/ \E h \in Histograms : SetEnabled(h)

SpecFlag == Init /\ [][NextFlag]_vars

\* ================================================================ claims
\* The last operation was the destructor of a Nested Scope that was on its
\* histogram's stack, and it ran to its end.
NestedLeft ==
  /\ last.op = "dtor"
  /\ last.scope.kind = "Nested"
  /\ last.g.entered
  /\ fault = NoFault

LastHistogram == last.scope.histogram_

\* Wall time of the scope the last destructor destroyed.
LastWall == last.leave - last.g.enter

\* C1: a Nested Scope with no Pause Scope directly inside it records, when it
\* leaves, exactly one sample: its wall time (leave instant minus enter
\* instant) minus the wall time of the Nested Scopes entered directly inside
\* it on the same histogram.
C1_NestedSelfTime ==
  (NestedLeft /\ last.g.pauseWall = 0)
    => last.added[LastHistogram] = <<LastWall - last.g.childWall>>

\* Three scopes A 0..3, B 1..3 in A, C 2..3 in B: C = 1, B = 2 - 1, A = 3 - 2.
C1_Witness ==
  /\ NestedLeft
  /\ last.g.enter = 0 /\ last.leave = 3
  /\ last.g.childWall = 2 /\ last.g.pauseWall = 0
  /\ samples[LastHistogram] = <<1, 1, 1>>
  /\ [i \in 1..Len(events) |-> events[i].status]
       = <<"kStart", "kStart", "kStart", "kEnd", "kEnd", "kEnd">>

\* Positions of cstack holding a Pause Scope that is on h's stack.
LivePauses(h) ==
  {i \in 1..Len(cstack) : /\ scopes[cstack[i]].kind = "Pause"
                          /\ ghost[cstack[i]].entered
                          /\ scopes[cstack[i]].histogram_ = h}

\* Positions of cstack holding a Nested Scope that is on h's stack.
LiveNested(h) ==
  {i \in 1..Len(cstack) : /\ scopes[cstack[i]].kind = "Nested"
                          /\ ghost[cstack[i]].entered
                          /\ scopes[cstack[i]].histogram_ = h}

\* C2: while a Pause Scope on an enabled histogram is alive, no timer of a
\* Nested Scope of that histogram that was active when it was constructed
\* advances; and a Nested Scope with no Nested Scope directly inside it
\* records its wall time minus the wall time of the Pause Scopes constructed
\* directly inside it.
C2_PauseExcluded ==
  /\ \A h \in Histograms : \A i \in LivePauses(h) : \A j \in LiveNested(h) :
       j < i => ~Advancing(scopes[cstack[j]].timer_)
  /\ (NestedLeft /\ last.g.childWall = 0)
       => last.added[LastHistogram] = <<LastWall - last.g.pauseWall>>

\* A 0..3 with a Pause Scope 1..2 records 2.
C2_Witness ==
  /\ NestedLeft
  /\ last.g.enter = 0 /\ last.leave = 3
  /\ last.g.childWall = 0 /\ last.g.pauseWall = 1
  /\ last.added[LastHistogram] = <<2>>

\* A constructor or destructor ran in this step; last' describes it.
ScopeOp == cstack' # cstack

\* The timers of all objects but s are as they were.
OtherTimersUnchanged(s) ==
  \A x \in ScopeIds \ {s} : scopes'[x].timer_ = scopes[x].timer_

\* C3: constructing or destroying a Plain, Optional, Nested or Pause Scope on
\* a disabled histogram adds no sample, leaves every stack top and every
\* other scope's timer as they were, does not start the scope's own timer,
\* and calls nothing but the start/end event logger.
C3_DisabledFrame ==
  [][(/\ ScopeOp
      /\ last'.scope.kind \in {"Plain", "Optional", "Nested", "Pause"}
      /\ ~enabled[last'.scope.histogram_])
       => /\ samples' = samples
          /\ current_' = current_
          /\ running' = running
          /\ v8_execute_us' = v8_execute_us
          /\ OtherTimersUnchanged(last'.id)
          /\ last'.scope.timer_ = NoTimer
          /\ \A i \in 1..Len(last'.steps) : last'.steps[i] \in {"kStart", "kEnd"}
    ]_vars

\* A Nested Scope on a disabled histogram was destroyed inside a scope whose
\* timer is advancing.
C3_Witness ==
  /\ last.op = "dtor"
  /\ last.scope.kind = "Nested"
  /\ ~enabled[LastHistogram]
  /\ last.steps = <<"kEnd">>
  /\ cstack # <<>>
  /\ Advancing(scopes[cstack[1]].timer_)

\* The step is the Leave of a Nested Scope in mode kRecord on the enabled
\* execute histogram.
LongTaskLeave ==
  /\ ScopeOp
  /\ last'.op = "dtor"
  /\ last'.scope.kind = "Nested"
  /\ last'.scope.mode_ = kRecord
  /\ last'.scope.histogram_ = Execute
  /\ enabled[Execute]

\* C4: the long-task counter grows by the recorded elapsed time in the Leave
\* of a Nested Scope in mode kRecord on the enabled execute histogram, and no
\* other step changes it.
C4_LongTaskFrame ==
  [][IF LongTaskLeave
     THEN /\ Len(last'.added[Execute]) = 1
          /\ v8_execute_us' = v8_execute_us + last'.added[Execute][1]
     ELSE v8_execute_us' = v8_execute_us]_vars

C4_Witness ==
  /\ last.op = "dtor"
  /\ last.scope.kind = "Nested"
  /\ last.scope.mode_ = kRecord
  /\ LastHistogram = Execute
  /\ last.added[Execute] = <<2>>
  /\ v8_execute_us = 2

\* C5: a Pause Scope constructed on an enabled histogram whose stack is empty
\* captures no previous scope, and the destructor of a Pause Scope that
\* captured none calls nothing: no Leave, no Resume, no dereference of the
\* null scope; the stack top, null before, is null after, and no timer
\* changes.
C5_PauseOnEmptyStack ==
  [][(/\ ScopeOp
      /\ last'.scope.kind = "Pause"
      /\ enabled[last'.scope.histogram_])
       => /\ (last'.op = "ctor" /\ current_[last'.scope.histogram_] = NULL)
               => last'.scope.previous_scope_ = NULL
          /\ (last'.op = "dtor" /\ last'.scope.previous_scope_ = NULL)
               => /\ last'.steps = <<>>
                  /\ fault' = NoFault
                  /\ current_[last'.scope.histogram_] = NULL
                  /\ current_' = current_
                  /\ OtherTimersUnchanged(last'.id)
    ]_vars

\* A Pause Scope that captured nothing was destroyed after a Nested Scope
\* had been entered and left inside it.
C5_Witness ==
  /\ last.op = "dtor"
  /\ last.scope.kind = "Pause"
  /\ enabled[LastHistogram]
  /\ last.scope.previous_scope_ = NULL
  /\ samples[LastHistogram] # <<>>
  /\ fault = NoFault

RECURSIVE ChainFrom(_, _)
\* The scopes reached from s along previous_scope_, s first; at most n.
ChainFrom(s, n) ==
  IF s = NULL \/ n = 0 THEN <<>>
  ELSE <<s>> \o ChainFrom(scopes[s].previous_scope_, n - 1)

\* The chain of previous-references from h's stack top.
Chain(h) == ChainFrom(current_[h], MaxScopes + 1)

Reverse(q) == [i \in 1..Len(q) |-> q[Len(q) + 1 - i]]

IsNestedOn(h, s) ==
  scopes[s].kind = "Nested" /\ ghost[s].entered /\ scopes[s].histogram_ = h

\* The entered, not yet left Nested Scopes of h, outermost first.
ActiveNested(h) == SelectSeq(cstack, LAMBDA s : IsNestedOn(h, s))

\* Those of them constructed after the innermost live Pause Scope of h (all
\* of them when no Pause Scope of h is alive).
ActiveNestedAbovePause(h) ==
  LET p == IF LivePauses(h) = {} THEN 0 ELSE Max(LivePauses(h))
  IN SelectSeq(SubSeq(cstack, p + 1, Len(cstack)),
               LAMBDA s : IsNestedOn(h, s))

NoDuplicates(q) == \A i, j \in 1..Len(q) : q[i] = q[j] => i = j

\* C6 (as amended): the chain of previous-references from each histogram's
\* stack top never repeats a scope and consists of exactly the active Nested
\* Scopes of that histogram constructed after its innermost live Pause Scope
\* (all active ones when no Pause Scope is alive), in call-stack order.
C6_ChainAbovePause ==
  \A h \in Histograms :
    /\ NoDuplicates(Chain(h))
    /\ Reverse(Chain(h)) = ActiveNestedAbovePause(h)

\* C6 (as claimed): the chain consists of exactly the active Nested Scopes of
\* the histogram, in call-stack order.
C6_ChainIsActiveNested ==
  \A h \in Histograms :
    /\ NoDuplicates(Chain(h))
    /\ Reverse(Chain(h)) = ActiveNested(h)

\* Nested Scope 1, a Pause Scope inside it, Nested Scope 3 inside that: the
\* chain is scope 3 alone.
C6_Witness ==
  \E h \in Histograms :
    /\ Len(cstack) = 3
    /\ IsNestedOn(h, cstack[1])
    /\ LivePauses(h) = {2}
    /\ IsNestedOn(h, cstack[3])
    /\ Chain(h) = <<cstack[3]>>

\* C7: whenever a histogram's stack top is a Nested Scope, the top's timer
\* advances and the timer of every other scope on the chain of
\* previous-references is started and paused.
C7_OnlyTopAdvances ==
  \A h \in Histograms :
    current_[h] # NULL =>
      /\ Advancing(scopes[Chain(h)[1]].timer_)
      /\ \A i \in 2..Len(Chain(h)) :
           /\ scopes[Chain(h)[i]].timer_.started
           /\ scopes[Chain(h)[i]].timer_.paused

\* The innermost of three nested scopes is on top and the clock has advanced
\* since it entered.
C7_Witness ==
  \E h \in Histograms :
    /\ Len(Chain(h)) = 3
    /\ now > ghost[current_[h]].enter

NoneAdded == [h \in Histograms |-> <<>>]

\* The samples a step adds when it adds the one sample x to histogram h.
OnlyAdded(h, x) == [NoneAdded EXCEPT ![h] = <<x>>]

\* The calls of Start() / Stop() on histogram h, in order.
StartCalls(h) ==
  IF ~enabled[h] THEN <<>>
  ELSE (IF debug THEN <<"ToggleRunningState">> ELSE <<>>) \o <<"timer.Start">>

StopCalls(h) ==
  IF ~enabled[h] THEN <<>>
  ELSE (IF debug THEN <<"ToggleRunningState">> ELSE <<>>)
       \o <<"AddTimedSample", "timer.Stop">>

LogCalls(iso, status) == IF iso # NoIsolate THEN <<status>> ELSE <<>>

\* C8: the constructor of a Plain Scope starts the timer (and, in a debug
\* build, marks the histogram running) iff the histogram is enabled, then
\* emits a start event iff an isolate was supplied; the destructor adds
\* exactly one sample (the time since construction) and stops the timer iff
\* the histogram is enabled, then emits an end event iff an isolate was
\* supplied.
C8_PlainScope ==
  (last.scope.kind = "Plain" /\ fault = NoFault) =>
    /\ last.op = "ctor" =>
         /\ last.steps = StartCalls(LastHistogram)
                         \o LogCalls(last.scope.isolate_, "kStart")
         /\ last.scope.timer_.started = enabled[LastHistogram]
         /\ last.added = NoneAdded
    /\ last.op = "dtor" =>
         /\ last.steps = StopCalls(LastHistogram)
                         \o LogCalls(last.scope.isolate_, "kEnd")
         /\ last.added = IF enabled[LastHistogram]
                         THEN OnlyAdded(LastHistogram, LastWall)
                         ELSE NoneAdded

\* A Plain Scope with an isolate on an enabled histogram was destroyed in a
\* debug build two ticks after its construction.
C8_Witness ==
  /\ last.op = "dtor"
  /\ last.scope.kind = "Plain"
  /\ last.steps = <<"ToggleRunningState", "AddTimedSample", "timer.Stop",
                    "kEnd">>
  /\ last.added[LastHistogram] = <<2>>
  /\ events[Len(events)] = [name |-> LastHistogram, status |-> "kEnd",
                            isolate |-> TheIsolate]
  /\ fault = NoFault

\* The machine with object s taken for an object of no particular class.
Classless(M, s) ==
  [M EXCEPT !.scopes[s].kind = "scope", !.scopes[s].mode_ = NoMode]

AsPlain(M, s) ==
  [M EXCEPT !.scopes[s].kind = "Plain", !.scopes[s].mode_ = NoMode]

\* The machine record of the next state, with the calls the step made.
MachineNext ==
  [scopes |-> scopes', current_ |-> current_', enabled |-> enabled',
   running |-> running', samples |-> samples',
   v8_execute_us |-> v8_execute_us', events |-> events', now |-> now',
   debug |-> debug', fault |-> fault', steps |-> last'.steps]

\* A step that constructs or destroys an Optional Scope in mode
\* DONT_TAKE_TIME makes no call and changes nothing but the object's own
\* storage; one in mode TAKE_TIME with an isolate among isos leads to the
\* state, and makes the calls, that the same step of a Plain Scope with the
\* same histogram and isolate would.
OptionalLikePlain(isos) ==
  (ScopeOp /\ last'.scope.kind = "Optional") =>
    LET s == last'.id
        o == last'.scope
        D == NewScope(Machine, s, "Optional", o.histogram_, o.isolate_,
                      DONT_TAKE_TIME)
        P == NewScope(Machine, s, "Plain", o.histogram_, o.isolate_, NoMode)
    IN /\ o.mode_ = DONT_TAKE_TIME =>
            MachineNext = IF last'.op = "ctor" THEN D
                          ELSE AfterDtor(Machine, s)
       /\ (o.mode_ = TAKE_TIME /\ o.isolate_ \in isos) =>
            IF last'.op = "ctor"
            THEN Classless(MachineNext, s)
                   = Classless(TimedHistogramScope_ctor(P, s, "crash"), s)
            ELSE MachineNext
                   = AfterDtor(TimedHistogramScope_dtor(AsPlain(Machine, s),
                                                        s, "crash"), s)

\* C9 (as amended): an Optional Scope in mode DONT_TAKE_TIME does nothing;
\* in mode TAKE_TIME with an isolate supplied, its constructor and
\* destructor have the effects of a Plain Scope's with the same histogram
\* and isolate, whatever the enabled flag.
C9_OptionalLikePlainWithIsolate == [][OptionalLikePlain({TheIsolate})]_vars

\* C9 (as claimed): the same also when no isolate is supplied.
C9_OptionalLikePlainAnyIsolate == [][OptionalLikePlain(Isolates)]_vars

\* An Optional Scope in mode TAKE_TIME with an isolate on an enabled
\* histogram was destroyed two ticks after its construction.
C9_Witness ==
  /\ last.op = "dtor"
  /\ last.scope.kind = "Optional"
  /\ last.scope.mode_ = TAKE_TIME
  /\ last.scope.isolate_ = TheIsolate
  /\ enabled[LastHistogram]
  /\ last.added[LastHistogram] = <<2>>
  /\ fault = NoFault

LazyRan == last.scope.kind = "Lazy" /\ fault = NoFault

\* C10 (as amended): the constructor of a Lazy Scope starts the timer with
\* no histogram set; when a histogram has been set, the destructor adds to it
\* one sample, the time since the scope's construction, and stops the timer
\* if that histogram is enabled, and does nothing if it is disabled.
C10_LazyRecordsIfEnabled ==
  LazyRan =>
    /\ last.op = "ctor" =>
         /\ last.steps = <<"timer.Start">>
         /\ last.scope.timer_ = ElapsedTimer_Start(NoTimer, last.leave)
         /\ last.scope.histogram_ = NoHistogram
    /\ (last.op = "dtor" /\ LastHistogram # NoHistogram) =>
         IF enabled[LastHistogram]
         THEN /\ last.added = OnlyAdded(LastHistogram, LastWall)
              /\ last.steps[Len(last.steps)] = "timer.Stop"
         ELSE /\ last.added = NoneAdded
              /\ last.steps = <<>>

\* C10 (as claimed): when a histogram has been set, the destructor always
\* stops the timer and adds to that histogram one sample, the time since the
\* scope's construction.
C10_LazyAlwaysRecords ==
  (LazyRan /\ last.op = "dtor" /\ LastHistogram # NoHistogram) =>
    /\ last.added = OnlyAdded(LastHistogram, LastWall)
    /\ last.steps # <<>>
    /\ last.steps[Len(last.steps)] = "timer.Stop"

\* A Lazy Scope constructed at 0 was given an enabled histogram at 1 and
\* destroyed at 2, recording 2.
C10_Witness ==
  /\ LazyRan
  /\ last.op = "dtor"
  /\ last.g.enter = 0 /\ last.g.assigned = 1 /\ last.leave = 2
  /\ enabled[LastHistogram]
  /\ last.added[LastHistogram] = <<2>>

\* The last operation was the destructor of a scope whose histogram's
\* enabled flag changed between the scope's start and this destructor.
StoppedAfterFlagChange ==
  /\ debug
  /\ last.op = "dtor"
  /\ last.scope.histogram_ # NoHistogram
  /\ last.scope.mode_ # DONT_TAKE_TIME
  /\ last.g.flagChanged

\* C11: in a debug build, when the enabled flag of a scope's histogram
\* changed between the scope's start and its stop, the stop ends in an
\* assertion failure at the latest.
C11_FlagChangeAsserts == StoppedAfterFlagChange => fault = "DCHECK"

\* A constructor, setter or destructor of a Lazy Scope ran in this step.
LazyOp == last' # last /\ last'.cls = "Lazy"

\* set_histogram ran on a Lazy Scope that already had a histogram.
Reassigned ==
  last'.op = "set_histogram" /\ scopes[last'.id].histogram_ # NoHistogram

\* The destructor ran on a Lazy Scope that never got a histogram.
DestroyedUnassigned ==
  last'.op = "dtor" /\ scopes[last'.id].histogram_ = NoHistogram

\* C12: in a debug build, a second set_histogram on a Lazy Scope, and the
\* destructor of a Lazy Scope without a histogram, end in an assertion
\* failure.
C12_LazyMisuseAsserts ==
  [][(debug /\ LazyOp /\ (Reassigned \/ DestroyedUnassigned))
       => fault' = "DCHECK"]_vars

\* Position in cstack of the innermost live scope on h's stack; 0 if none.
InnermostOnStack(h) ==
  LET S == LivePauses(h) \cup LiveNested(h)
  IN IF S = {} THEN 0 ELSE Max(S)

\* The innermost live scope on h's stack is a Pause Scope.
Suspended(h) == InnermostOnStack(h) \in LivePauses(h)

\* The last operation was the constructor or destructor of a Nested Scope B
\* on the enabled histogram h, and the scope directly around B on h's stack
\* is a Pause Scope.
EnteredUnderPause(h) ==
  /\ last.op = "ctor" /\ last.cls = "Nested" /\ last.g.entered
  /\ last.scope.histogram_ = h
  /\ fault = NoFault
  /\ Parent # NULL /\ scopes[Parent].kind = "Pause"

LeftUnderPause(h) ==
  /\ NestedLeft
  /\ LastHistogram = h
  /\ Suspended(h)

\* Self time of the live Nested Scope a up to instant t, its direct children
\* having been destroyed by then.
SelfTimeUntil(a, t) ==
  t - ghost[a].enter - ghost[a].childWall - ghost[a].pauseWall

InSeq(x, q) == \E i \in 1..Len(q) : q[i] = x

\* C13: while a Pause Scope that captured scope A is alive, A's timer is
\* paused at A's self time up to the Pause Scope's construction; the stack
\* top is null whenever the Pause Scope is the innermost scope on the stack;
\* a Nested Scope B entered directly under the Pause Scope captures null,
\* pauses no timer on entry, resumes none on leaving, leaves the top null and
\* records its own self time as the only sample.
C13_PauseHidesAncestor ==
  \A h \in Histograms :
    /\ \A i \in LivePauses(h) :
         LET P == cstack[i]
             A == scopes[P].previous_scope_
         IN A # NULL =>
              /\ scopes[A].timer_.started
              /\ scopes[A].timer_.paused
              /\ scopes[A].timer_.paused_elapsed
                   = SelfTimeUntil(A, ghost[P].enter)
    /\ Suspended(h) => current_[h] = NULL
    /\ EnteredUnderPause(h) =>
         /\ scopes[last.id].previous_scope_ = NULL
         /\ ~InSeq("timer.Pause", last.steps)
    /\ LeftUnderPause(h) =>
         /\ last.scope.previous_scope_ = NULL
         /\ ~InSeq("timer.Resume", last.steps)
         /\ last.added
              = OnlyAdded(h, LastWall - last.g.childWall - last.g.pauseWall)

\* A entered at 0, a Pause Scope captured it at 1, B ran inside the Pause
\* Scope from 2 to 3 and has left: B recorded 1 and A's timer still shows 1.
C13_Witness ==
  \E h \in Histograms :
    /\ LeftUnderPause(h)
    /\ Len(cstack) = 2
    /\ scopes[cstack[2]].previous_scope_ = cstack[1]
    /\ ghost[cstack[1]].enter = 0 /\ ghost[cstack[2]].enter = 1
    /\ last.g.enter = 2 /\ last.leave = 3
    /\ samples[h] = <<1>>
    /\ ElapsedTimer_Elapsed(scopes[cstack[1]].timer_, now) = 1

\* The last operation was the destructor of a Pause Scope that had captured
\* a previous scope, on a histogram that is enabled.
PauseLeft ==
  /\ last.op = "dtor"
  /\ last.scope.kind = "Pause"
  /\ last.scope.previous_scope_ # NULL
  /\ enabled[LastHistogram]
  /\ fault = NoFault

\* C14: the destructor of a Pause Scope that captured a scope, on a
\* histogram still enabled, calls Leave and Resume and nothing else: the
\* stack top is the captured scope again, every stack top and the set of
\* scopes whose timer advances are what they were just before the Pause
\* Scope was constructed, and the captured scope's timer resumes from the
\* value it had then.
C14_PauseRoundTrip ==
  PauseLeft =>
    LET A == last.scope.previous_scope_
    IN /\ last.steps = <<"Leave", "timer.Resume">>
       /\ current_[LastHistogram] = A
       /\ current_ = last.g.topBefore
       /\ AdvancingScopes = last.g.advancingBefore
       /\ A \in AdvancingScopes
       /\ ElapsedTimer_Elapsed(scopes[A].timer_, last.leave)
            = SelfTimeUntil(A, last.g.enter) + LastWall

\* A entered at 0; a Pause Scope captured it at 1 and was destroyed at 3
\* after a Nested Scope had run and recorded a sample inside it.
C14_Witness ==
  /\ PauseLeft
  /\ ghost[last.scope.previous_scope_].enter = 0
  /\ last.g.enter = 1 /\ last.leave = 3
  /\ samples[LastHistogram] # <<>>
  /\ ElapsedTimer_Elapsed(scopes[last.scope.previous_scope_].timer_, now) = 1

\* <<x>> when b holds, else the empty sequence.
If(b, x) == IF b THEN <<x>> ELSE <<>>

RECURSIVE Unmatched(_, _, _)
\* The histograms of the start events among events[i..] that no later end
\* event closes, oldest first, st being those open before i; <<"mismatch">>
\* when an end event does not close the most recent open start.
Unmatched(ev, i, st) ==
  IF i > Len(ev) THEN st
  ELSE IF ev[i].status = "kStart"
  THEN Unmatched(ev, i + 1, Append(st, ev[i].name))
  ELSE IF st # <<>> /\ st[Len(st)] = ev[i].name
  THEN Unmatched(ev, i + 1, SubSeq(st, 1, Len(st) - 1))
  ELSE <<"mismatch">>

\* The histograms of the live Nested Scopes, outermost first.
LiveNestedNames ==
  [i \in 1..Len(SelectSeq(cstack, LAMBDA s : scopes[s].kind = "Nested")) |->
     scopes[SelectSeq(cstack, LAMBDA s : scopes[s].kind = "Nested")[i]]
       .histogram_]

\* C15: the constructor of a Nested Scope logs one start event, after Enter,
\* the pause of the enclosing scope and the start of its own timer when the
\* histogram is enabled, and alone when it is disabled; the destructor logs
\* one end event, after Leave, the sample, the long-task time and the resume
\* of the enclosing scope when enabled, and alone when disabled; the event
\* log is properly nested and its open start events are those of the live
\* Nested Scopes, in order of construction.
C15_NestedEvents ==
  /\ (last.cls = "Nested" /\ last.op = "ctor") =>
       LET h == last.scope.histogram_
           previous == scopes[last.id].previous_scope_
       IN /\ last.steps
               = IF enabled[h]
                 THEN <<"Enter">> \o If(previous # NULL, "timer.Pause")
                        \o <<"timer.Start", "kStart">>
                 ELSE <<"kStart">>
          /\ events[Len(events)]
               = [name |-> h, status |-> "kStart", isolate |-> TheIsolate]
  /\ (last.cls = "Nested" /\ last.op = "dtor") =>
       LET h == last.scope.histogram_
           previous == last.scope.previous_scope_
       IN /\ last.steps
               = IF enabled[h]
                 THEN <<"Leave", "AddTimedSample">>
                        \o If(last.scope.mode_ = kRecord /\ h = Execute,
                              "RecordLongTaskTime")
                        \o If(debug, "timer.Stop")
                        \o If(previous # NULL, "timer.Resume")
                        \o <<"kEnd">>
                 ELSE <<"kEnd">>
          /\ events[Len(events)]
               = [name |-> h, status |-> "kEnd", isolate |-> TheIsolate]
  /\ Unmatched(events, 1, <<>>) = LiveNestedNames

\* A around B and then C, on histograms of which one is enabled and the
\* other disabled, all destroyed: start start end start end end.
C15_Witness ==
  /\ last.cls = "Nested" /\ last.op = "dtor"
  /\ cstack = <<>>
  /\ enabled["execute"] /\ ~enabled["compile"]
  /\ [i \in 1..Len(events) |-> events[i].status]
       = <<"kStart", "kStart", "kEnd", "kStart", "kEnd", "kEnd">>
  /\ [i \in 1..Len(events) |-> events[i].name]
       = <<"execute", "compile", "compile", "execute", "execute", "execute">>

\* Scope s is a live Plain Scope, or Optional Scope in mode TAKE_TIME, on h.
TogglesRunning(s, h) ==
  /\ \/ scopes[s].kind = "Plain"
     \/ scopes[s].kind = "Optional" /\ scopes[s].mode_ = TAKE_TIME
  /\ scopes[s].histogram_ = h

\* The running state of each histogram in hs is true exactly while a Plain
\* Scope or TAKE_TIME Optional Scope on it is alive and it is enabled.
RunningWhileAlive(hs) ==
  \A h \in hs :
    running[h] <=> (enabled[h] /\ \E s \in ScopeIds : TogglesRunning(s, h))

\* What a constructor or destructor does to the running state in a debug
\* build: on an enabled histogram a Plain or TAKE_TIME Optional constructor
\* turns it on, or fails a DCHECK when it is on already; the destructor
\* turns it off; Nested and Pause Scopes leave it alone and fail no check.
RunningToggles ==
  (debug /\ ScopeOp) =>
    LET h == last'.scope.histogram_
        toggling ==
          /\ \/ last'.cls = "Plain"
             \/ last'.cls = "Optional" /\ last'.scope.mode_ = TAKE_TIME
          /\ enabled[h]
    IN /\ (toggling /\ last'.op = "ctor") =>
            IF running[h]
            THEN fault' = "DCHECK" /\ running' = running
            ELSE running' = [running EXCEPT ![h] = TRUE]
                   /\ last'.steps[1] = "ToggleRunningState"
       /\ (toggling /\ last'.op = "dtor") =>
            /\ running[h]
            /\ running' = [running EXCEPT ![h] = FALSE]
            /\ last'.steps[1] = "ToggleRunningState"
       /\ last'.cls \in {"Nested", "Pause"} =>
            running' = running /\ fault' = NoFault

\* C16 (as amended): in a debug build the running state of a histogram that
\* was never given to a Lazy Scope is true exactly while a Plain Scope or
\* TAKE_TIME Optional Scope on it is alive and it is enabled, as long as the
\* program runs; constructors and destructors toggle it as RunningToggles
\* says.
C16_RunningGuardNoLazy ==
  [][/\ (debug /\ fault' = NoFault)
          => RunningWhileAlive(Histograms \ lazyAssigned)'
     /\ RunningToggles]_vars

\* C16 (as claimed): the same for every histogram.
C16_RunningGuard ==
  [][/\ (debug /\ fault' = NoFault) => RunningWhileAlive(Histograms)'
     /\ RunningToggles]_vars

\* A second Plain or TAKE_TIME Optional Scope was constructed on an enabled
\* histogram, never given to a Lazy Scope, on which one was alive: the
\* DCHECK failed.
C16_Witness ==
  /\ debug
  /\ fault = "DCHECK"
  /\ last.op = "ctor"
  /\ last.cls \in {"Plain", "Optional"}
  /\ LastHistogram \notin lazyAssigned
  /\ enabled[LastHistogram]
  /\ Cardinality({s \in ScopeIds : TogglesRunning(s, LastHistogram)}) = 2

\* C17: the destructor of a Nested Scope or Pause Scope leaves every stack
\* top at the value it had just before that scope's constructor; and when no
\* scope is alive every stack top is null and no timer advances.
C17_StackRestored ==
  /\ (last.op = "dtor" /\ last.cls \in {"Nested", "Pause"})
       => current_ = last.g.topBefore
  /\ cstack = <<>> =>
       /\ current_ = [h \in Histograms |-> NULL]
       /\ AdvancingScopes = {}

\* Three scopes on one enabled histogram, a Pause Scope directly inside the
\* outermost Nested Scope among them, have all been destroyed.
C17_Witness ==
  /\ NestedLeft
  /\ enabled[LastHistogram]
  /\ last.g.pauseWall > 0
  /\ created = 3
  /\ cstack = <<>>
  /\ Len(samples[LastHistogram]) = 2

\* C18: the timer of an entered, not yet left Nested Scope advances if and
\* only if the scope is its histogram's stack top; so at most one of them
\* advances per histogram, and none when the top is null.
C18_AdvancingIffTop ==
  \A h \in Histograms : \A i \in LiveNested(h) :
    Advancing(scopes[cstack[i]].timer_) <=> current_[h] = cstack[i]

\* A, a Pause Scope inside it and B inside that, on one histogram: B is the
\* top and advances, A is hidden below the Pause Scope and does not.
C18_Witness ==
  \E h \in Histograms :
    /\ LiveNested(h) = {1, 3}
    /\ LivePauses(h) = {2}
    /\ current_[h] = cstack[3]
    /\ now > ghost[cstack[3]].enter
    /\ Advancing(scopes[cstack[3]].timer_)
    /\ ~Advancing(scopes[cstack[1]].timer_)

RECURSIVE SumSeq(_)
SumSeq(q) == IF q = <<>> THEN 0 ELSE Head(q) + SumSeq(Tail(q))

\* C19: whenever no Nested Scope or Pause Scope of a histogram is alive, the
\* samples recorded on it add up to the time that has passed while its stack
\* top was a Nested Scope.
C19_TimeConserved ==
  \A h \in Histograms :
    InnermostOnStack(h) = 0 => SumSeq(samples[h]) = topTime[h]

\* A from 0 to 3 with a Pause Scope from 1 to 2 and nothing inside it: the
\* one sample is 2, and the top was not null for 2 of the 3 ticks.
C19_Witness ==
  /\ NestedLeft
  /\ cstack = <<>>
  /\ last.g.enter = 0 /\ last.leave = 3
  /\ last.g.pauseWall = 1
  /\ samples[LastHistogram] = <<2>>
  /\ topTime[LastHistogram] = 2

====
